---- MODULE Spec2Model ----
(***************************************************************************)
(* Model of scripts/meshcore-bridge.py: the MeshCoreBridge object, its    *)
(* command handlers and the line loop of run().                           *)
(*                                                                         *)
(* The meshcore library (SerialConnection, TCPConnection, MeshCore) is an *)
(* external collaborator.  Each call into it is a nondeterministic choice *)
(* over the outcomes it can produce (return a value, return None, raise); *)
(* the choice is the record `dev` drawn in HandleCommand/FinalDisconnect. *)
(*                                                                         *)
(* Environment assumptions: standard output stays writable, values the    *)
(* device returns are JSON-serialisable, and every input line fits the    *)
(* StreamReader buffer.                                                    *)
(***************************************************************************)
EXTENDS Integers, Sequences, FiniteSets, TLC

\* ------------------------------------------------------------------ bounds
MaxLines == 2       \* input lines the loop reads in one run
MaxHandles == 2     \* transport objects alive (open or referenced) at one time

\* ------------------------------------------------------- values of the code
None == 0           \* Python None for self.meshcore / self.connection
Absent == "<absent>"    \* a key the request object does not carry

DeviceCmds == {"get_self_info", "get_contacts", "send_message", "send_advert",
               "login", "get_status", "set_name", "set_radio"}
KnownCmds == {"connect", "disconnect", "shutdown", "ping"} \cup DeviceCmds

\* The caller's correlation ids: uniqueness is the caller's business, and the
\* caller modelled here numbers its lines, so the n-th line read carries the
\* id Ids[n] if it carries one.
Ids == <<"1", "2", "3", "4", "5", "6">>

\* What one input line can be.  kind: blank (empty after strip), badjson
\* (json.loads raises), nonobject (JSON, but not a dict), object (a dict).
NoLine == [kind |-> "none", id |-> Absent, cmd |-> Absent, type |-> Absent]
\* Lines(i) is what a line can be whose id, if any, is i.  Every command is
\* tried with an id; a missing id is tried with the commands of NoIdCmds.
NoIdCmds == {"connect", "get_contacts", "ping", "bogus"}
Lines(i) ==
    {[kind |-> k, id |-> Absent, cmd |-> Absent, type |-> Absent] :
        k \in {"blank", "badjson", "nonobject"}}
    \cup {[kind |-> "object", id |-> i, cmd |-> c, type |-> Absent] :
        c \in KnownCmds \cup {"bogus", Absent}}
    \cup {[kind |-> "object", id |-> Absent, cmd |-> c, type |-> Absent] :
        c \in NoIdCmds}
    \cup {[kind |-> "object", id |-> i, cmd |-> "connect", type |-> "tcp"]}

\* Outcomes of the library calls made while one request is handled.
\*   ctor      SerialConnection(...)/TCPConnection(...)   returns or raises
\*   handshake MeshCore.connect()    a result, None, or raises
\*   opened    whether the transport got opened when the handshake fails
\*   close     MeshCore.disconnect() returns or raises
\*   op        a commands.* call     a result, nothing (status only), raises
DeviceOutcomes ==
    [ctor : {"ok", "raise"}, handshake : {"ok", "none", "raise"},
     opened : BOOLEAN, close : {"ok", "raise"}, op : {"ok", "none", "raise"}]

VARIABLES
    MESHCORE_AVAILABLE, TCP_AVAILABLE,  \* module flags set at import
    connection, meshcore, connected, running,   \* MeshCoreBridge fields
    pc,         \* position of the run() coroutine
    tasks,      \* is a shutdown_handler task created and not yet run?  (Several
                \* pending tasks act as one: each only clears the running flag.)
    open,       \* transports opened on which MeshCore.disconnect() was never called
    cur,        \* the parsed line handle_command is working on, or NoLine
    nread,      \* lines read so far
    reqs,       \* for each non-blank line read: the id it carries, or NoReq
    out,        \* lines written to stdout: "ready", or the id of a response
    resp,       \* the last response line written, in full
    events,     \* branches the last handled request took that its response hides
    info,       \* location fields of a dict the device library hands over
    record,     \* the record serialised from info, or NoRecord
    clock,      \* time units a pending req_status_sync call has been waiting
    device      \* how the device behaves towards a status request

vars == <<MESHCORE_AVAILABLE, TCP_AVAILABLE, connection, meshcore, connected,
          running, pc, tasks, open, cur, nread, reqs, out, resp,
          events, info, record, clock, device>>

\* The bridge object (with the library's transport state) as one value, so
\* that the handlers are functions from a bridge to a bridge.
Self == [connection |-> connection, meshcore |-> meshcore,
         connected |-> connected, running |-> running,
         open |-> open]

\* Transport objects are told apart by a handle; a new one gets the least
\* handle that is neither open nor the one the bridge still refers to.
Handles == 1..MaxHandles
FreeHandles(s) == Handles \ (s.open \cup {s.meshcore})
NewHandle(s) == CHOOSE h \in FreeHandles(s) : \A g \in FreeHandles(s) : h <= g

\* ------------------------------------------------------------- responses
Ok(cmd_id, data) == [id |-> cmd_id, success |-> TRUE, body |-> data]
Err(cmd_id, error) == [id |-> cmd_id, success |-> FALSE, body |-> error]
NoResp == [id |-> Absent, success |-> FALSE, body |-> Absent]

Result(s, r, ev) == [st |-> s, resp |-> r, ev |-> ev, exc |-> FALSE]
\* the handler raised: handle_command's except clause builds the response
Raised(s, ev) == [st |-> s, resp |-> NoResp, ev |-> ev \cup {"raised"}, exc |-> TRUE]

NotConnected(s, cmd_id) == Result(s, Err(cmd_id, "Not connected"), {})

\* ---------------------------------------------------------------- handlers
\* Each handler maps the bridge s, the request and the library outcomes dev to
\* the bridge afterwards, the response it returns (or the fact that it
\* raised) and the branches it took.

\* mutant: no try/except around MeshCore.disconnect(), so a close that raises
\* leaves the fields as they were and the error propagates
cmd_disconnect_close_raises(s, cmd_id, dev) ==
    IF s.meshcore # None /\ dev.close = "raise"
    THEN Raised([s EXCEPT !.open = @ \ {s.meshcore}], {})
    ELSE Result([s EXCEPT !.open = @ \ {s.meshcore},
                          !.meshcore = None,
                          !.connection = None,
                          !.connected = FALSE],
                Ok(cmd_id, "connected:false"), {})

cmd_disconnect(s, cmd_id, dev) ==
    LET called == s.meshcore # None
        ev == IF called /\ dev.close = "raise" THEN {"close_swallowed"} ELSE {}
    IN Result([s EXCEPT !.open = IF called THEN @ \ {s.meshcore} ELSE @,
                        !.meshcore = None,
                        !.connection = None,
                        !.connected = FALSE],
              Ok(cmd_id, "connected:false"), ev)

\* mutant: the transport is checked before the old session is disconnected,
\* so a refused connect returns with the old session untouched
cmd_connect_refuses_first(s, cmd_id, cmd_data, dev) ==
    IF ~MESHCORE_AVAILABLE
    THEN Result(s, Err(cmd_id, "meshcore library not installed"), {})
    ELSE IF cmd_data.type = "tcp" /\ ~TCP_AVAILABLE
    THEN Result(s, Err(cmd_id, "TCP not supported"), {})
    ELSE
    LET d == IF s.connected THEN cmd_disconnect(s, cmd_id, dev)
             ELSE Result(s, NoResp, {})
        s1 == d.st
        ev1 == d.ev \cup (IF s.connected THEN {"implicit_disconnect"} ELSE {})
        h == NewHandle(s)
        s2 == [s1 EXCEPT !.connection = h, !.meshcore = h]
        opens(t) == IF dev.opened THEN t \cup {h} ELSE t
    IN  IF dev.ctor = "raise"
        THEN Raised(s1, ev1)
        ELSE IF dev.handshake = "raise"
        THEN Raised([s2 EXCEPT !.open = opens(@)], ev1)
        ELSE IF dev.handshake = "none"
        THEN Result([s2 EXCEPT !.open = opens(@), !.meshcore = None,
                               !.connection = None],
                    Err(cmd_id, "No response from device"),
                    ev1 \cup {"no_response"})
        ELSE Result([s2 EXCEPT !.open = @ \cup {h}, !.connected = TRUE],
                    Ok(cmd_id, "connected:true"), ev1)

\* mutant: the `result is None` branch is missing
cmd_connect_ignores_none(s, cmd_id, cmd_data, dev) ==
    IF ~MESHCORE_AVAILABLE
    THEN Result(s, Err(cmd_id, "meshcore library not installed"), {})
    ELSE
    LET d == IF s.connected THEN cmd_disconnect(s, cmd_id, dev)
             ELSE Result(s, NoResp, {})
        s1 == d.st
        ev1 == d.ev \cup (IF s.connected THEN {"implicit_disconnect"} ELSE {})
        h == NewHandle(s)
        s2 == [s1 EXCEPT !.connection = h, !.meshcore = h]
        opens(t) == IF dev.opened THEN t \cup {h} ELSE t
    IN  IF cmd_data.type = "tcp" /\ ~TCP_AVAILABLE
        THEN Result(s1, Err(cmd_id, "TCP not supported"), ev1)
        ELSE IF dev.ctor = "raise"
        THEN Raised(s1, ev1)
        ELSE IF dev.handshake = "raise"
        THEN Raised([s2 EXCEPT !.open = opens(@)], ev1)
        ELSE Result([s2 EXCEPT !.open = IF dev.handshake = "ok"
                                        THEN @ \cup {h} ELSE opens(@),
                               !.connected = TRUE],
                    Ok(cmd_id, "connected:true"),
                    ev1 \cup (IF dev.handshake = "none"
                              THEN {"no_response"} ELSE {}))

cmd_connect(s, cmd_id, cmd_data, dev) ==
    IF ~MESHCORE_AVAILABLE
    THEN Result(s, Err(cmd_id, "meshcore library not installed"), {})
    ELSE
    LET d == IF s.connected THEN cmd_disconnect(s, cmd_id, dev)
             ELSE Result(s, NoResp, {})
        s1 == d.st
        ev1 == d.ev \cup (IF s.connected THEN {"implicit_disconnect"} ELSE {})
        h == NewHandle(s)
        s2 == [s1 EXCEPT !.connection = h, !.meshcore = h]
        opens(t) == IF dev.opened THEN t \cup {h} ELSE t
    IN  IF cmd_data.type = "tcp" /\ ~TCP_AVAILABLE
        THEN Result(s1, Err(cmd_id, "TCP not supported"), ev1)
        ELSE IF dev.ctor = "raise"
        THEN Raised(s1, ev1)
        ELSE IF dev.handshake = "raise"
        THEN Raised([s2 EXCEPT !.open = opens(@)], ev1)
        ELSE IF dev.handshake = "none"
        THEN Result([s2 EXCEPT !.open = opens(@), !.meshcore = None,
                               !.connection = None],
                    Err(cmd_id, "No response from device"),
                    ev1 \cup {"no_response"})
        ELSE Result([s2 EXCEPT !.open = @ \cup {h}, !.connected = TRUE],
                    Ok(cmd_id, "connected:true"), ev1)

cmd_get_self_info(s, cmd_id) ==
    IF ~s.connected \/ s.meshcore = None THEN NotConnected(s, cmd_id)
    ELSE Result(s, Ok(cmd_id, "self_info"), {})

\* mutant: the connected/meshcore guard is missing
cmd_get_contacts_unguarded(s, cmd_id, dev) ==
    IF s.meshcore = None \/ dev.op = "raise" THEN Raised(s, {})
    ELSE Result(s, Ok(cmd_id, "contacts"), {})

cmd_get_contacts(s, cmd_id, dev) ==
    IF ~s.connected \/ s.meshcore = None THEN NotConnected(s, cmd_id)
    ELSE IF dev.op = "raise" THEN Raised(s, {})
    ELSE Result(s, Ok(cmd_id, "contacts"), {})

cmd_send_message(s, cmd_id, cmd_data, dev) ==
    IF ~s.connected \/ s.meshcore = None THEN NotConnected(s, cmd_id)
    ELSE IF dev.op = "raise" THEN Raised(s, {})
    ELSE Result(s, Ok(cmd_id, "sent:true"), {})

cmd_send_advert(s, cmd_id, dev) ==
    IF ~s.connected \/ s.meshcore = None THEN NotConnected(s, cmd_id)
    ELSE IF dev.op = "raise" THEN Raised(s, {})
    ELSE Result(s, Ok(cmd_id, "sent:true"), {})

cmd_login(s, cmd_id, cmd_data, dev) ==
    IF ~s.connected \/ s.meshcore = None THEN NotConnected(s, cmd_id)
    ELSE IF dev.op = "raise" THEN Raised(s, {})
    ELSE Result(s, Ok(cmd_id, "logged_in:true"), {})

\* mutant: the `if status:` test is missing, a falsy status is passed on
cmd_get_status_none_is_ok(s, cmd_id, cmd_data, dev) ==
    IF ~s.connected \/ s.meshcore = None THEN NotConnected(s, cmd_id)
    ELSE IF dev.op = "raise" THEN Raised(s, {})
    ELSE Result(s, Ok(cmd_id, "status"), {})

cmd_get_status(s, cmd_id, cmd_data, dev) ==
    IF ~s.connected \/ s.meshcore = None THEN NotConnected(s, cmd_id)
    ELSE IF dev.op = "raise" THEN Raised(s, {})
    ELSE IF dev.op = "none"
    THEN Result(s, Err(cmd_id, "No status received"), {})
    ELSE Result(s, Ok(cmd_id, "status"), {})

cmd_set_name(s, cmd_id, cmd_data, dev) ==
    IF ~s.connected \/ s.meshcore = None THEN NotConnected(s, cmd_id)
    ELSE IF dev.op = "raise" THEN Raised(s, {})
    ELSE Result(s, Ok(cmd_id, "name"), {})

cmd_set_radio(s, cmd_id, cmd_data, dev) ==
    IF ~s.connected \/ s.meshcore = None THEN NotConnected(s, cmd_id)
    ELSE IF dev.op = "raise" THEN Raised(s, {})
    ELSE Result(s, Ok(cmd_id, "set:true"), {})

\* mutant: the running flag is left set
cmd_shutdown_keeps_running(s, cmd_id, dev) ==
    LET d == IF s.connected THEN cmd_disconnect(s, cmd_id, dev)
             ELSE Result(s, NoResp, {})
    IN Result(d.st, Ok(cmd_id, "shutdown:true"), d.ev)

cmd_shutdown(s, cmd_id, dev) ==
    LET s1 == [s EXCEPT !.running = FALSE]
        d == IF s1.connected THEN cmd_disconnect(s1, cmd_id, dev)
             ELSE Result(s1, NoResp, {})
    IN Result(d.st, Ok(cmd_id, "shutdown:true"), d.ev)

\* mutant: the request's id is not copied into the response
get_id_forgets(cmd_data) == "unknown"

\* cmd_data.get('id', 'unknown')
get_id(cmd_data) == IF cmd_data.id = Absent THEN "unknown" ELSE cmd_data.id

\* cmd_data.get('cmd', '')
get_cmd(cmd_data) == IF cmd_data.cmd = Absent THEN "" ELSE cmd_data.cmd

\* mutant: there is no else branch, an unrecognised name raises in the dispatch
handle_command_no_else(s, cmd_data, dev) ==
    LET cmd_id == get_id(cmd_data)
        cmd == get_cmd(cmd_data)
        r == CASE cmd = "connect" -> cmd_connect(s, cmd_id, cmd_data, dev)
               [] cmd = "disconnect" -> cmd_disconnect(s, cmd_id, dev)
               [] cmd = "get_self_info" -> cmd_get_self_info(s, cmd_id)
               [] cmd = "get_contacts" -> cmd_get_contacts(s, cmd_id, dev)
               [] cmd = "send_message" -> cmd_send_message(s, cmd_id, cmd_data, dev)
               [] cmd = "send_advert" -> cmd_send_advert(s, cmd_id, dev)
               [] cmd = "login" -> cmd_login(s, cmd_id, cmd_data, dev)
               [] cmd = "get_status" -> cmd_get_status(s, cmd_id, cmd_data, dev)
               [] cmd = "set_name" -> cmd_set_name(s, cmd_id, cmd_data, dev)
               [] cmd = "set_radio" -> cmd_set_radio(s, cmd_id, cmd_data, dev)
               [] cmd = "shutdown" -> cmd_shutdown(s, cmd_id, dev)
               [] cmd = "ping" -> Result(s, Ok(cmd_id, "pong"), {})
               [] OTHER -> Raised(s, {})
    IN IF r.exc
       THEN Result(r.st, Err(cmd_id, "exception, traceback"), r.ev)
       ELSE r

\* mutant: ping is refused like a device command when there is no session
handle_command_ping_needs_session(s, cmd_data, dev) ==
    LET cmd_id == get_id(cmd_data)
        cmd == get_cmd(cmd_data)
        r == CASE cmd = "connect" -> cmd_connect(s, cmd_id, cmd_data, dev)
               [] cmd = "disconnect" -> cmd_disconnect(s, cmd_id, dev)
               [] cmd = "get_self_info" -> cmd_get_self_info(s, cmd_id)
               [] cmd = "get_contacts" -> cmd_get_contacts(s, cmd_id, dev)
               [] cmd = "send_message" -> cmd_send_message(s, cmd_id, cmd_data, dev)
               [] cmd = "send_advert" -> cmd_send_advert(s, cmd_id, dev)
               [] cmd = "login" -> cmd_login(s, cmd_id, cmd_data, dev)
               [] cmd = "get_status" -> cmd_get_status(s, cmd_id, cmd_data, dev)
               [] cmd = "set_name" -> cmd_set_name(s, cmd_id, cmd_data, dev)
               [] cmd = "set_radio" -> cmd_set_radio(s, cmd_id, cmd_data, dev)
               [] cmd = "shutdown" -> cmd_shutdown(s, cmd_id, dev)
               [] cmd = "ping" ->
                    IF ~s.connected \/ s.meshcore = None
                    THEN NotConnected(s, cmd_id)
                    ELSE Result(s, Ok(cmd_id, "pong"), {})
               [] OTHER -> Result(s, Err(cmd_id, "Unknown command: " \o cmd), {})
    IN IF r.exc
       THEN Result(r.st, Err(cmd_id, "exception, traceback"), r.ev)
       ELSE r

\* cmd_data is a dict here; run() handles the case where it is not.
handle_command(s, cmd_data, dev) ==
    LET cmd_id == get_id(cmd_data)
        cmd == get_cmd(cmd_data)
        r == CASE cmd = "connect" -> cmd_connect(s, cmd_id, cmd_data, dev)
               [] cmd = "disconnect" -> cmd_disconnect(s, cmd_id, dev)
               [] cmd = "get_self_info" -> cmd_get_self_info(s, cmd_id)
               [] cmd = "get_contacts" -> cmd_get_contacts(s, cmd_id, dev)
               [] cmd = "send_message" -> cmd_send_message(s, cmd_id, cmd_data, dev)
               [] cmd = "send_advert" -> cmd_send_advert(s, cmd_id, dev)
               [] cmd = "login" -> cmd_login(s, cmd_id, cmd_data, dev)
               [] cmd = "get_status" -> cmd_get_status(s, cmd_id, cmd_data, dev)
               [] cmd = "set_name" -> cmd_set_name(s, cmd_id, cmd_data, dev)
               [] cmd = "set_radio" -> cmd_set_radio(s, cmd_id, cmd_data, dev)
               [] cmd = "shutdown" -> cmd_shutdown(s, cmd_id, dev)
               [] cmd = "ping" -> Result(s, Ok(cmd_id, "pong"), {})
               [] OTHER -> Result(s, Err(cmd_id, "Unknown command: " \o cmd), {})
    IN IF r.exc
       THEN Result(r.st, Err(cmd_id, "exception, traceback"), r.ev)
       ELSE r

\* ------------------------------------------------------- serialisation
\* A value of a location field: Python None (also what dict.get gives for a
\* key that is missing) or a float, counted in hundredths of a degree.
NoneF == <<>>
Float(x) == <<x>>
\* Python truth of such a value: None and 0.0 are false
Truthy(v) == v # NoneF /\ v[1] # 0
\* Python `a or b`: a if a is true, else b (whatever b is)
py_or(a, b) == IF Truthy(a) THEN a ELSE b
\* `if lat == 0.0: lat = None`
zero_to_none(v) == IF v = Float(0) THEN NoneF ELSE v

LatNames == {"adv_lat", "latitude", "lat"}
LonNames == {"adv_lon", "longitude", "lon"}
\* 0.0, 12.5 and -3.25
Coords == {0, 1250, -325}
FieldValues == {NoneF} \cup {Float(x) : x \in Coords}
Infos == [LatNames \cup LonNames -> FieldValues]
NoInfo == [n \in LatNames \cup LonNames |-> NoneF]
NoRecord == [of |-> "none", latitude |-> NoneF, longitude |-> NoneF]

\* mutant: the `== 0.0` filter is missing
serialize_self_info_keeps_zero(i) ==
    LET lat == py_or(i.adv_lat, i.latitude)
        lon == py_or(i.adv_lon, i.longitude)
    IN [of |-> "self", latitude |-> lat, longitude |-> lon]

\* _serialize_self_info, its latitude and longitude
serialize_self_info(i) ==
    LET lat == py_or(i.adv_lat, i.latitude)
        lon == py_or(i.adv_lon, i.longitude)
    IN [of |-> "self", latitude |-> zero_to_none(lat),
        longitude |-> zero_to_none(lon)]

\* the body of the loop over contacts in cmd_get_contacts
serialize_contact(contact) ==
    LET lat == py_or(py_or(contact.adv_lat, contact.latitude), contact.lat)
        lon == py_or(py_or(contact.adv_lon, contact.longitude), contact.lon)
    IN [of |-> "contact", latitude |-> zero_to_none(lat),
        longitude |-> zero_to_none(lon)]

\* ------------------------------------------------------------- the process
ReadyLine == "ready"
Line(r) == r.id

\* what reqs records for a line: the id of a JSON object that carries one
NoReq == "-"
ReqEntry(line) ==
    IF line.kind = "object" /\ line.id # Absent THEN line.id ELSE NoReq

\* What the device does with a status request: it never replies, it replies,
\* or the transport to it fails; AnyDevice leaves it open.
Devices == {"silent", "replies", "fails"}
AnyDevice == "any"

\* The library calls a request can reach: the other outcomes are held fixed.
Relevant(c) ==
    {d \in DeviceOutcomes :
        /\ c.cmd # "connect" => d.ctor = "ok" /\ d.handshake = "ok" /\ ~d.opened
        /\ c.cmd \notin {"connect", "disconnect", "shutdown"} => d.close = "ok"
        /\ c.cmd \notin DeviceCmds \ {"get_self_info"} => d.op = "ok"
        /\ c.cmd # "get_status" => d.op # "none"}

\* MeshCoreBridge.__init__, the module-level imports, and main() about to
\* call run().
Init ==
    /\ MESHCORE_AVAILABLE \in BOOLEAN
    /\ TCP_AVAILABLE \in BOOLEAN
    /\ TCP_AVAILABLE => MESHCORE_AVAILABLE
    /\ connection = None
    /\ meshcore = None
    /\ connected = FALSE
    /\ running = TRUE
    /\ pc = "start"
    /\ tasks = FALSE
    /\ open = {}
    /\ cur = NoLine
    /\ nread = 0
    /\ reqs = <<>>
    /\ out = <<>>
    /\ resp = NoResp
    /\ events = {}
    /\ info = NoInfo
    /\ record = NoRecord
    /\ clock = 0
    /\ device = AnyDevice

flags == <<MESHCORE_AVAILABLE, TCP_AVAILABLE>>
bridge == <<connection, meshcore, connected, running, open>>
input == <<cur, nread, reqs>>
output == <<out, resp, events>>
gps == <<info, record>>
timer == <<clock, device>>

\* mutant: run() enters the loop without announcing itself
Ready_silent ==
    /\ pc = "start"
    /\ pc' = "pipe"
    /\ UNCHANGED <<flags, gps, timer, bridge, input, output, tasks>>

\* run(): install the signal handlers, print the ready line, and await
\* connect_read_pipe.
Ready ==
    /\ pc = "start"
    /\ out' = Append(out, ReadyLine)
    /\ pc' = "pipe"
    /\ UNCHANGED <<flags, gps, timer, bridge, input, resp, events, tasks>>

\* mutant: the loop is `while True:`, left only by the break at end-of-input
while_running_forever(flag) == "read"

\* `while self.running:` is evaluated with no await between it and the
\* statement before it: the loop goes on to wait for a line, or is left.
while_running(flag) == IF flag THEN "read" ELSE "final"

PipeConnected ==
    /\ pc = "pipe"
    /\ pc' = while_running(running)
    /\ UNCHANGED <<flags, gps, timer, bridge, input, output, tasks>>

\* mutant: the read has no timeout, it keeps waiting for a line
ReadTimeout_blocks ==
    /\ pc = "read"
    /\ pc' = "read"
    /\ UNCHANGED <<flags, gps, timer, bridge, input, output, tasks>>

\* wait_for raises TimeoutError after 1.0 s: continue
ReadTimeout ==
    /\ pc = "read"
    /\ pc' = while_running(running)
    /\ UNCHANGED <<flags, gps, timer, bridge, input, output, tasks>>

\* readline returns b'': break
ReadEOF ==
    /\ pc = "read"
    /\ pc' = "final"
    /\ UNCHANGED <<flags, gps, timer, bridge, input, output, tasks>>

\* mutant: the `if not line: continue` test is missing, so json.loads('')
\* raises and the blank line is answered as invalid JSON
ReadBlank_answers ==
    /\ pc = "read"
    /\ nread < MaxLines /\ nread < Len(Ids)
    /\ \E line \in Lines(Ids[nread + 1]) : line.kind = "blank"
    /\ nread' = nread + 1
    /\ out' = Append(out, Line(Err("unknown", "Invalid JSON")))
    /\ resp' = Err("unknown", "Invalid JSON")
    /\ pc' = while_running(running)
    /\ UNCHANGED <<flags, gps, timer, bridge, cur, reqs, events, tasks>>

\* a line that is empty after strip(): continue
ReadBlank ==
    /\ pc = "read"
    /\ nread < MaxLines /\ nread < Len(Ids)
    /\ \E line \in Lines(Ids[nread + 1]) : line.kind = "blank"
    /\ nread' = nread + 1
    /\ pc' = while_running(running)
    /\ UNCHANGED <<flags, gps, timer, bridge, cur, reqs, output, tasks>>

\* mutant: the JSONDecodeError handler leaves the loop after answering
ReadBadJson_ends_loop ==
    /\ pc = "read"
    /\ nread < MaxLines /\ nread < Len(Ids)
    /\ \E line \in Lines(Ids[nread + 1]) :
        /\ line.kind = "badjson"
        /\ reqs' = Append(reqs, ReqEntry(line))
    /\ nread' = nread + 1
    /\ out' = Append(out, Line(Err("unknown", "Invalid JSON")))
    /\ resp' = Err("unknown", "Invalid JSON")
    /\ pc' = "final"
    /\ UNCHANGED <<flags, gps, timer, bridge, cur, events, tasks>>

\* json.loads raises JSONDecodeError: print the error line, continue
ReadBadJson ==
    /\ pc = "read"
    /\ nread < MaxLines /\ nread < Len(Ids)
    /\ \E line \in Lines(Ids[nread + 1]) :
        /\ line.kind = "badjson"
        /\ reqs' = Append(reqs, ReqEntry(line))
    /\ nread' = nread + 1
    /\ out' = Append(out, Line(Err("unknown", "Invalid JSON")))
    /\ resp' = Err("unknown", "Invalid JSON")
    /\ pc' = while_running(running)
    /\ UNCHANGED <<flags, gps, timer, bridge, cur, events, tasks>>

\* json.loads returns cmd_data: handle_command(cmd_data) is entered
ReadRequest ==
    /\ pc = "read"
    /\ nread < MaxLines /\ nread < Len(Ids)
    /\ \E line \in Lines(Ids[nread + 1]) :
        /\ line.kind \in {"nonobject", "object"}
        /\ line.cmd = "connect" => FreeHandles(Self) # {}
        /\ cur' = line
        /\ reqs' = Append(reqs, ReqEntry(line))
    /\ nread' = nread + 1
    /\ pc' = "op"
    /\ UNCHANGED <<flags, gps, timer, bridge, output, tasks>>

\* mutant: run()'s `except Exception` answers and then stops the loop
run_handle_stops_on_error(s, cmd_data, dev) ==
    IF cmd_data.kind = "object"
    THEN handle_command(s, cmd_data, dev)
    ELSE Result([s EXCEPT !.running = FALSE], Err("unknown", "exception"),
                {"raised", "not_a_dict"})

\* `response = await self.handle_command(cmd_data)` inside run()'s try: when
\* cmd_data is no dict, cmd_data.get raises AttributeError before the try of
\* handle_command is entered, and run()'s `except Exception` builds the answer.
run_handle(s, cmd_data, dev) ==
    IF cmd_data.kind = "object"
    THEN handle_command(s, cmd_data, dev)
    ELSE Result(s, Err("unknown", "exception"), {"raised", "not_a_dict"})

\* handle_command runs to its return (or raises out of it) and run() prints
\* the response line.
Respond(dev) ==
    /\ pc = "op"
    /\ LET r == run_handle(Self, cur, dev)
       IN  /\ connection' = r.st.connection
           /\ meshcore' = r.st.meshcore
           /\ connected' = r.st.connected
           /\ running' = r.st.running
           /\ open' = r.st.open
           /\ out' = Append(out, Line(r.resp))
           /\ resp' = r.resp
           /\ events' = r.ev
           /\ pc' = while_running(r.st.running)
    /\ cur' = NoLine
    /\ UNCHANGED <<flags, gps, timer, nread, reqs, tasks>>

\* the library calls end in any of the ways they can
HandleCommand == \E dev \in Relevant(cur) : Respond(dev)

\* after the loop: `if self.connected: await self.cmd_disconnect('shutdown')`
FinalDisconnect ==
    /\ pc = "final"
    /\ \E dev \in Relevant([cmd |-> "disconnect"]) :
        LET r == IF connected THEN cmd_disconnect(Self, "shutdown", dev)
                 ELSE Result(Self, NoResp, {})
        IN  /\ connection' = r.st.connection
            /\ meshcore' = r.st.meshcore
            /\ connected' = r.st.connected
            /\ open' = r.st.open
            /\ events' = IF connected THEN r.ev ELSE events
    /\ pc' = "done"
    /\ UNCHANGED <<flags, gps, timer, running, input, out, resp, tasks>>

\* Does handling request c on bridge s reach an await of a library call?
Awaits(s, c) ==
    /\ c.kind = "object"
    /\ CASE c.cmd = "connect" ->
                MESHCORE_AVAILABLE
                /\ (s.connected \/ c.type # "tcp" \/ TCP_AVAILABLE)
         [] c.cmd = "disconnect" -> s.meshcore # None
         [] c.cmd = "shutdown" -> s.connected /\ s.meshcore # None
         [] c.cmd \in DeviceCmds \ {"get_self_info"} ->
                s.connected /\ s.meshcore # None
         [] OTHER -> FALSE

\* run() is suspended at an await, so the event loop can run other tasks
Suspended ==
    \/ pc \in {"pipe", "read"}
    \/ pc = "op" /\ Awaits(Self, cur)
    \/ pc = "final" /\ connected /\ meshcore # None

\* SIGTERM or SIGINT arrives: the installed handler creates a task
Signal ==
    /\ pc \notin {"start", "done"}
    /\ ~tasks
    /\ tasks' = TRUE
    /\ UNCHANGED <<flags, gps, timer, bridge, pc, input, output>>

\* mutant: the handler cancels run() where it is suspended, dropping a
\* request in hand
shutdown_handler_cancels ==
    /\ tasks
    /\ Suspended
    /\ running' = FALSE
    /\ tasks' = FALSE
    /\ pc' = IF pc = "op" THEN "final" ELSE pc
    /\ cur' = NoLine
    /\ UNCHANGED <<flags, gps, timer, connection, meshcore, connected, open,
                   nread, reqs, output>>

\* mutant: the handler tears the session down itself
shutdown_handler_disconnects ==
    /\ tasks
    /\ Suspended
    /\ running' = FALSE
    /\ tasks' = FALSE
    /\ connected' = FALSE
    /\ meshcore' = None
    /\ connection' = None
    /\ open' = open \ {meshcore}
    /\ UNCHANGED <<flags, gps, timer, pc, input, output>>

shutdown_handler ==
    /\ tasks
    /\ Suspended
    /\ running' = FALSE
    /\ tasks' = FALSE
    /\ UNCHANGED <<flags, gps, timer, connection, meshcore, connected, open, pc,
                   input, output>>

Next ==
    \/ Ready
    \/ PipeConnected
    \/ ReadTimeout
    \/ ReadEOF
    \/ ReadBlank
    \/ ReadBadJson
    \/ ReadRequest
    \/ HandleCommand
    \/ FinalDisconnect
    \/ Signal
    \/ shutdown_handler

Spec == Init /\ [][Next]_vars

\* The event loop runs every ready task and every timeout fires: the steps of
\* run() that do not wait for input are taken, and a scheduled
\* shutdown_handler runs at one of the awaits run() keeps reaching.  Input
\* lines, end-of-input and signals are the environment's and are not forced.
RunStep == Ready \/ PipeConnected \/ ReadTimeout \/ HandleCommand \/ FinalDisconnect
FairSpec == Spec /\ WF_vars(RunStep) /\ SF_vars(shutdown_handler)


\* The serialisers on their own: the library hands over any dict of location
\* fields, and one of the two serialisers is applied to it.
GpsInit ==
    /\ MESHCORE_AVAILABLE = TRUE
    /\ TCP_AVAILABLE \in BOOLEAN
    /\ connection = None
    /\ meshcore = None
    /\ connected = FALSE
    /\ running = TRUE
    /\ pc = "start"
    /\ tasks = FALSE
    /\ open = {}
    /\ cur = NoLine
    /\ nread = 0
    /\ reqs = <<>>
    /\ out = <<>>
    /\ resp = NoResp
    /\ events = {}
    /\ info \in Infos
    /\ record = NoRecord
    /\ clock = 0
    /\ device = AnyDevice

SerializeSelf ==
    /\ record = NoRecord
    /\ record' = serialize_self_info(info)
    /\ UNCHANGED <<flags, bridge, pc, tasks, input, output, info, timer>>

SerializeContact ==
    /\ record = NoRecord
    /\ record' = serialize_contact(info)
    /\ UNCHANGED <<flags, bridge, pc, tasks, input, output, info, timer>>

GpsNext == SerializeSelf \/ SerializeContact
GpsSpec == GpsInit /\ [][GpsNext]_vars

\* One get_status request, in time.  cmd_get_status awaits
\* commands.req_status_sync(public_key, timeout=10) and nothing else bounds
\* or cancels that wait; the library is taken to keep the timeout it is
\* given: the call returns a status when the device replies in time, raises
\* when the transport fails, and returns None once `timeout` time units have
\* passed without a reply, not earlier.
status_timeout == 10

\* the bridge is Connected and the second line read, a get_status, is in hand
StatusInit ==
    /\ MESHCORE_AVAILABLE = TRUE
    /\ TCP_AVAILABLE \in BOOLEAN
    /\ connection = 1
    /\ meshcore = 1
    /\ connected = TRUE
    /\ running \in BOOLEAN
    /\ pc = "op"
    /\ tasks \in BOOLEAN
    /\ open = {1}
    /\ cur = [kind |-> "object", id |-> Ids[2], cmd |-> "get_status",
              type |-> Absent]
    /\ nread = 2
    /\ reqs = <<Ids[1], Ids[2]>>
    /\ out = <<ReadyLine, Ids[1]>>
    /\ resp = Ok(Ids[1], "connected:true")
    /\ events = {}
    /\ info = NoInfo
    /\ record = NoRecord
    /\ clock = 0
    /\ device \in Devices

\* the library calls of a get_status request, req_status_sync ending as `op`
StatusOutcome(op) ==
    [ctor |-> "ok", handshake |-> "ok", opened |-> FALSE, close |-> "ok",
     op |-> op]

\* a time unit passes while req_status_sync is awaited
Tick ==
    /\ pc = "op" /\ cur.cmd = "get_status" /\ Awaits(Self, cur)
    /\ clock < status_timeout
    /\ clock' = clock + 1
    /\ UNCHANGED <<flags, bridge, pc, tasks, input, output, gps, device>>

\* the device replies within the timeout
StatusReply == device = "replies" /\ Respond(StatusOutcome("ok"))

\* the transport fails while the call is pending
StatusFails == device = "fails" /\ Respond(StatusOutcome("raise"))

\* the timeout has passed without a reply: req_status_sync returns None
StatusTimeout == clock = status_timeout /\ Respond(StatusOutcome("none"))

StatusNext ==
    \/ Tick
    \/ StatusReply
    \/ StatusFails
    \/ StatusTimeout
    \/ Signal
    \/ shutdown_handler

\* time passes and the library's timer fires
StatusSpec ==
    StatusInit /\ [][StatusNext]_vars /\ WF_vars(Tick) /\ WF_vars(StatusTimeout)


\* ================================================================= claims
\* the response lines written so far (every line after the ready line)
Responses == IF out # <<>> /\ out[1] = ReadyLine THEN Tail(out) ELSE out
\* the step in which handle_command finishes and its response is printed
HandleStep == pc = "op" /\ pc' # "op"
\* the step in which a line that json.loads rejects is read: the only step
\* that consumes a non-blank line without entering handle_command
BadJsonStep == pc = "read" /\ nread' = nread + 1 /\ reqs' # reqs /\ pc' # "op"
Answered(r) == out' = Append(out, r.id) /\ resp' = r
\* the id the response to the request in hand has to carry
ReqId == IF cur.id = Absent THEN "unknown" ELSE cur.id
LoopGoesOn == running' = running /\ pc' = while_running(running)

\* C1: every non-blank line read is answered by exactly one response line, in
\* the order read, and the i-th response carries the id of the i-th line that
\* carries one; the only line not yet answered is the one being handled.
C1_ResponsePerRequest ==
    /\ Len(Responses) = Len(reqs) - (IF pc = "op" THEN 1 ELSE 0)
    /\ \A i \in 1..Len(Responses) : reqs[i] # NoReq => Responses[i] = reqs[i]

\* C1 witness: two requests with different ids were read and the process has
\* ended; the second one's device operation failed.
C1_Witness ==
    /\ pc = "done"
    /\ reqs = <<"1", "2">>
    /\ resp.body = "exception, traceback"

\* C2: reading a line that is not parsable JSON writes exactly one response,
\* with id "unknown" and success false, leaves the session and the running
\* flag as they were, and the loop goes on to the next read.
C2_BadJsonAnswered ==
    [][BadJsonStep =>
        /\ Answered(Err("unknown", "Invalid JSON"))
        /\ UNCHANGED <<connection, meshcore, connected, open>>
        /\ LoopGoesOn]_vars

\* C2 witness: after a bad line was answered, the loop has read a following
\* request.
C2_Witness == pc = "op" /\ resp.body = "Invalid JSON"

\* C3: when handling a request raises (a library call raises, or the parsed
\* value is no object), exactly one success-false response is written, the
\* running flag is untouched and the loop goes on; the loop is left only at
\* end-of-input (a read that consumes and writes nothing) or with the running
\* flag false, and the flag falls only in a shutdown command or in
\* shutdown_handler.
C3_ErrorsAnswered ==
    [][/\ (HandleStep /\ "raised" \in events') =>
            /\ out' = Append(out, resp'.id)
            /\ ~resp'.success
            /\ LoopGoesOn
       /\ (pc \in {"pipe", "read", "op"} /\ pc' \notin {"pipe", "read", "op"}) =>
            /\ pc' = "final"
            /\ \/ ~running'
               \/ pc = "read" /\ nread' = nread /\ out' = out
       /\ (running /\ ~running') =>
            \/ pc = "op" /\ cur.cmd = "shutdown"
            \/ tasks /\ ~tasks']_vars

\* C3 witness: a parsed value that is no object was answered and the loop is
\* waiting for the next line.
C3_Witness == pc = "read" /\ "not_a_dict" \in events /\ running

\* C4 as stated: any command other than connect, handled while Disconnected,
\* gets "Not connected" and changes nothing.
C4_Original ==
    [][(HandleStep /\ cur.kind = "object" /\ cur.cmd # "connect" /\ ~connected) =>
        /\ Answered(Err(ReqId, "Not connected"))
        /\ UNCHANGED <<connection, meshcore, connected, running, open>>]_vars

\* C4 amended: each of the eight device commands, handled while Disconnected,
\* gets "Not connected" and changes nothing.
C4_DeviceCmdsNeedSession ==
    [][(HandleStep /\ cur.kind = "object" /\ cur.cmd \in DeviceCmds /\ ~connected) =>
        /\ Answered(Err(ReqId, "Not connected"))
        /\ UNCHANGED <<connection, meshcore, connected, running, open>>]_vars

\* C4 witness: a device command was refused while Disconnected.
C4_Witness == pc = "read" /\ resp.body = "Not connected" /\ ~connected

\* C5: a disconnect request always gets success {connected:false} and leaves
\* connected false, no device object and no transport handle, also when the
\* close raises; on a session that is already clear it changes nothing.
C5_DisconnectIdempotent ==
    [][(HandleStep /\ cur.kind = "object" /\ cur.cmd = "disconnect") =>
        /\ Answered(Ok(ReqId, "connected:false"))
        /\ ~connected' /\ meshcore' = None /\ connection' = None
        /\ (~connected /\ meshcore = None /\ connection = None) =>
                UNCHANGED <<connection, meshcore, connected, running, open>>
        /\ LoopGoesOn]_vars

\* C5 witness: a disconnect whose close raised was answered with success.
C5_Witness ==
    /\ resp = Ok("2", "connected:false")
    /\ "close_swallowed" \in events
    /\ ~connected /\ meshcore = None /\ connection = None

\* C6 as stated: a connect issued while Connected runs the old device
\* object's disconnect before the new transport exists, and between requests
\* at most one transport is open, every earlier one having been closed.
C6_NoDanglingTransport ==
    /\ [][(HandleStep /\ cur.kind = "object" /\ cur.cmd = "connect" /\ connected
             /\ meshcore' # meshcore)
          => meshcore \notin open']_vars
    /\ [](pc # "op" => Cardinality(open) <= 1 /\ open \subseteq {meshcore})

\* C7: a shutdown request gets exactly one success response {shutdown:true},
\* written in the step that clears the running flag and leaves the session
\* Disconnected; the loop is left, and from then on no line is read and no
\* line is written.
C7_ShutdownAnsweredThenStops ==
    [][/\ (HandleStep /\ cur.kind = "object" /\ cur.cmd = "shutdown") =>
            /\ Answered(Ok(ReqId, "shutdown:true"))
            /\ ~connected' /\ ~running'
            /\ pc' = "final"
       /\ resp.body = "shutdown:true" =>
            /\ nread' = nread /\ reqs' = reqs /\ out' = out
            /\ pc' \in {"final", "done"}
            /\ ~connected' /\ ~running']_vars

\* C7 witness: a shutdown issued while Connected (its close raised) was
\* answered and the process has ended.
C7_Witness ==
    /\ pc = "done"
    /\ resp.body = "shutdown:true"
    /\ "close_swallowed" \in events
    /\ Len(out) = 3

\* C8 as stated: at process exit every transport that was opened has been
\* closed through the device disconnect and connected, the device object and
\* the transport handle are all cleared.
C8_TornDownAtExit ==
    pc = "done" =>
        /\ open = {}
        /\ ~connected /\ meshcore = None /\ connection = None

\* C9: once a shutdown_handler task has been created by a signal, the loop
\* is eventually left and the process ends with the session Disconnected,
\* whether or not another line arrives.
C9_SignalStopsLoop == tasks ~> (pc = "done" /\ ~connected)

\* C9 witness: the process has ended without having read any line and
\* without end-of-input: the running flag was cleared by shutdown_handler.
C9_Witness == pc = "done" /\ nread = 0 /\ ~running

\* C10 as stated: a connect whose handshake returns None gets the
\* no-response error and leaves the session Disconnected with the device
\* object and transport handle cleared; the next command other than connect
\* gets "Not connected".
C10_Original ==
    [][/\ (HandleStep /\ "no_response" \in events') =>
            /\ Answered(Err(ReqId, "No response from device"))
            /\ ~connected' /\ meshcore' = None /\ connection' = None
       /\ (HandleStep /\ "no_response" \in events /\ cur.kind = "object"
             /\ cur.cmd # "connect") =>
            Answered(Err(ReqId, "Not connected"))]_vars

\* C10 amended: as C10, with the next command being one of the eight device
\* commands.
C10_NoDeviceResponse ==
    [][/\ (HandleStep /\ "no_response" \in events') =>
            /\ Answered(Err(ReqId, "No response from device"))
            /\ ~connected' /\ meshcore' = None /\ connection' = None
       /\ (HandleStep /\ "no_response" \in events /\ cur.kind = "object"
             /\ cur.cmd \in DeviceCmds) =>
            Answered(Err(ReqId, "Not connected"))]_vars

\* C10 witness: a connect got no handshake response and a device command
\* read after it is being handled.
C10_Witness ==
    /\ pc = "op"
    /\ "no_response" \in events
    /\ cur.cmd \in DeviceCmds
    /\ ~connected /\ meshcore = None /\ connection = None

\* C11: a ping request is answered with success and "pong" whatever the
\* session state; the connected flag, the device object, the transport handle,
\* the open transports and the running flag are as before, and no library
\* call is made: the result is the same whatever the library would have
\* returned, and no await is reached at which another task could run.
C11_PingTouchesNothing ==
    [][(HandleStep /\ cur.kind = "object" /\ cur.cmd = "ping") =>
        /\ Answered(Ok(ReqId, "pong"))
        /\ UNCHANGED <<connection, meshcore, connected, running, open>>
        /\ \A d \in DeviceOutcomes :
                run_handle(Self, cur, d) = Result(Self, Ok(ReqId, "pong"), {})
        /\ ~Awaits(Self, cur)
        /\ LoopGoesOn]_vars

\* C11 witness: a ping sent while Connected was answered and the session is
\* still Connected.
C11_Witness ==
    /\ pc = "read"
    /\ resp = Ok("2", "pong")
    /\ connected /\ meshcore # None /\ open = {meshcore}

\* C12: before run() has printed the ready line nothing was read or written;
\* from then on the ready line is the first line of the output and occurs
\* nowhere else in it, whatever was read, answered or timed out since.
C12_ReadyOnceAndFirst ==
    /\ pc = "start" => out = <<>> /\ nread = 0 /\ reqs = <<>>
    /\ pc # "start" =>
        /\ out # <<>> /\ out[1] = ReadyLine
        /\ \A i \in 2..Len(out) : out[i] # ReadyLine

\* C12 witness: a connect and a reconnect were both answered after the ready
\* line and the loop is waiting again.
C12_Witness ==
    /\ pc = "read"
    /\ out = <<ReadyLine, "1", "2">>
    /\ "implicit_disconnect" \in events
    /\ connected

\* The dict i reports the coordinate component x under the field names
\* `names`: at least one of them is present, and each one present carries x.
Reports(i, names, x) ==
    /\ \E n \in names : i[n] # NoneF
    /\ \A n \in names : i[n] \in {NoneF, Float(x)}
\* a pair (0, 0) is serialised as absent, a pair without a zero as it is
Normalized(la, lo) ==
    /\ (la = 0 /\ lo = 0) =>
            record.latitude = NoneF /\ record.longitude = NoneF
    /\ (la # 0 /\ lo # 0) =>
            record.latitude = Float(la) /\ record.longitude = Float(lo)
\* the field names each serialiser reads
ReadLatNames == IF record.of = "self" THEN {"adv_lat", "latitude"} ELSE LatNames
ReadLonNames == IF record.of = "self" THEN {"adv_lon", "longitude"} ELSE LonNames

\* C13 as stated: for the self-identity record and for a contact record, a
\* pair reported under any of adv_lat/latitude/lat and adv_lon/longitude/lon
\* is serialised as absent when it is (0, 0) and unchanged when neither
\* component is zero.
C13_Original ==
    record # NoRecord =>
        \A la, lo \in Coords :
            (Reports(info, LatNames, la) /\ Reports(info, LonNames, lo))
                => Normalized(la, lo)

\* C13 amended: the same, for the field names the serialiser reads:
\* adv_lat/latitude and adv_lon/longitude for the self-identity record, all
\* three of each for a contact record.
C13_GpsNormalized ==
    record # NoRecord =>
        \A la, lo \in Coords :
            (Reports(info, ReadLatNames, la) /\ Reports(info, ReadLonNames, lo))
                => Normalized(la, lo)

\* C13 witness: a contact whose only location fields are lat = 0.0 and
\* lon = 0.0 was serialised without a location.
C13_Witness ==
    /\ record.of = "contact"
    /\ info = [NoInfo EXCEPT !["lat"] = Float(0), !["lon"] = Float(0)]
    /\ record.latitude = NoneF /\ record.longitude = NoneF

\* C14: a get_status handled while Connected against a device that never
\* replies is answered with the error "No status received", and that answer
\* is written when the 10 time units of the timeout have passed and not
\* before, also when a signal was served during the wait; the session is
\* Connected afterwards, and the wait ends.
C14_StatusTimesOut ==
    /\ [][(HandleStep /\ cur.cmd = "get_status" /\ connected
            /\ device = "silent") =>
            /\ Answered(Err(ReqId, "No status received"))
            /\ clock >= status_timeout
            /\ connected'
            /\ UNCHANGED <<connection, meshcore, connected, open>>
            /\ LoopGoesOn]_vars
    /\ (pc = "op" /\ device = "silent") ~> (pc # "op")

\* C14 witness: the silent device's request was answered at the timeout with
\* the running flag already cleared by a signal, and the session is Connected.
C14_Witness ==
    /\ pc = "final"
    /\ device = "silent"
    /\ resp = Err("2", "No status received")
    /\ clock = status_timeout
    /\ connected /\ meshcore # None
    /\ ~running

\* the text of the request's cmd as the response quotes it
CmdText == IF cur.cmd = Absent THEN "" ELSE cur.cmd

\* C15: a request whose cmd is none of the twelve recognised names, or is
\* missing, gets exactly one success-false response "Unknown command: <cmd>"
\* with the request's id; the session and the running flag are as before and
\* the loop goes on.
C15_UnknownCommand ==
    [][(HandleStep /\ cur.kind = "object" /\ cur.cmd \notin KnownCmds) =>
        /\ Answered(Err(ReqId, "Unknown command: " \o CmdText))
        /\ UNCHANGED <<connection, meshcore, connected, running, open>>
        /\ LoopGoesOn]_vars

\* C15 witness: an unrecognised command sent while Connected was answered
\* and the loop is waiting for the next line, the session still Connected.
C15_Witness ==
    /\ pc = "read"
    /\ resp = Err("2", "Unknown command: bogus")
    /\ connected /\ running

\* the session as the handlers see it, with the transports it has open
Session == <<connection, meshcore, connected, open>>
\* a step of the task a signal created / the step that creates it
HandlerStep == tasks /\ ~tasks'
SignalStep == ~tasks /\ tasks'

\* C16: a line is read only while no request is in hand and every line read
\* before has its response written; the session changes only in the step
\* that completes the one request in hand or in the final disconnect; the
\* signal handler's task clears the running flag and changes nothing else,
\* and the arrival of a signal changes nothing but the pending task.
C16_Sequential ==
    [][/\ nread' # nread =>
            /\ pc = "read" /\ cur = NoLine
            /\ Len(Responses) = Len(reqs)
       /\ Session' # Session =>
            \/ HandleStep /\ cur # NoLine /\ cur' = NoLine
            \/ pc = "final" /\ pc' = "done"
       /\ HandlerStep =>
            /\ ~running'
            /\ UNCHANGED <<Session, pc, cur, nread, reqs, out, resp>>
       /\ SignalStep =>
            UNCHANGED <<Session, running, pc, cur, nread, reqs, out, resp>>]_vars

\* C16 witness: the handler's task has run while the bridge was Connected and
\* waiting for its second line: the flag is cleared, the session is as it was.
C16_Witness ==
    /\ pc = "read"
    /\ ~running /\ ~tasks
    /\ nread = 1 /\ out = <<ReadyLine, "1">>
    /\ connected /\ meshcore # None /\ open = {meshcore}

\* C17: when the handler's task runs while a request is in hand, the request
\* stays in hand and nothing is written or torn down; a request leaves the
\* handler only with its response written, carrying its id, and the loop is
\* left right then if the running flag is cleared; the final disconnect runs
\* with no request in hand and every line read answered; and a request in
\* hand when a signal is pending is followed by the end of the process, after
\* which nothing more is read or written.
C17_StopDoesNotCancel ==
    /\ [][/\ (HandlerStep /\ pc = "op") =>
               /\ pc' = "op" /\ cur' = cur
               /\ UNCHANGED <<Session, out, resp>>
          /\ (pc = "op" /\ pc' # "op") =>
               /\ out' = Append(out, resp'.id)
               /\ resp'.id = ReqId
               /\ pc' = while_running(running')
          /\ (pc = "final" /\ pc' = "done") =>
               /\ cur = NoLine
               /\ Len(Responses) = Len(reqs)
          /\ pc = "done" => pc' = "done" /\ out' = out /\ reqs' = reqs]_vars
    /\ (pc = "op" /\ tasks) ~> (pc = "done")

\* C17 witness: the handler's task has run during a get_contacts that is
\* still in hand on a Connected session.
C17_Witness ==
    /\ pc = "op"
    /\ cur.cmd = "get_contacts" /\ cur.id = "2"
    /\ ~running /\ ~tasks
    /\ connected /\ meshcore # None
    /\ out = <<ReadyLine, "1">>

\* a step of run() at the read that consumes no line: the wait timed out, or
\* the input ended
IdleStep == pc = "read" /\ nread' = nread /\ tasks' = tasks
\* the step that reads a line which is empty after trimming
BlankStep == pc = "read" /\ nread' = nread + 1 /\ reqs' = reqs

\* C18: a read that times out and a line that is empty after trimming write
\* nothing and change neither the session nor the running flag; after a
\* timeout or a blank line the loop tests the running flag and waits again or
\* is left, and with the flag set it is left only when the input has ended;
\* so there are never more response lines than non-empty lines read.
C18_IdleReadsAreSilent ==
    /\ [][/\ (IdleStep \/ BlankStep) =>
                /\ UNCHANGED <<Session, running, out, resp, cur>>
                /\ pc' \in {"read", "final"}
                /\ ~running => pc' = "final"
          /\ BlankStep => pc' = while_running(running)]_vars
    /\ [](Len(Responses) <= Len(reqs))

\* C18 witness: a blank line was read on a Connected session after the
\* connect was answered; nothing was written for it.
C18_Witness ==
    /\ pc = "read"
    /\ nread = 2 /\ reqs = <<"1">>
    /\ out = <<ReadyLine, "1">>
    /\ connected /\ running

\* C19 as stated: whenever no request is in hand, and so between two requests
\* and at process exit, the bridge holds a device object and a transport
\* handle exactly when it is Connected.
C19_SessionIffConnected ==
    pc # "op" =>
        /\ connected => meshcore # None /\ connection # None
        /\ ~connected => meshcore = None /\ connection = None

\* C20: the running flag, once false, stays false.  With the flag false, a
\* line is read only by the read that was already waiting, and that read is
\* the last: the loop is then handling that line or is left; a response is
\* written one at a time and the loop is left in the same step; while a
\* request is in hand or the input pipe is being connected nothing is read;
\* and after the loop nothing is read or written.
C20_AtMostOneMore ==
    [][/\ ~running => ~running'
       /\ (~running /\ nread' # nread) =>
            /\ pc = "read" /\ nread' = nread + 1
            /\ pc' \in {"op", "final"}
       /\ (~running /\ out' # out) =>
            /\ Len(out') = Len(out) + 1
            /\ pc' = "final"
       /\ (~running /\ pc = "op") => nread' = nread /\ pc' \in {"op", "final"}
       /\ (~running /\ pc = "pipe") =>
            /\ nread' = nread /\ out' = out
            /\ pc' \in {"pipe", "final"}
       /\ pc \in {"final", "done"} =>
            /\ nread' = nread /\ out' = out
            /\ pc' \in {"final", "done"}]_vars

\* C20 witness: the flag is false and a ping is in hand.  A ping reaches no
\* await, so the handler's task ran during the read that then delivered this
\* line: it is the one more line.
C20_Witness ==
    /\ pc = "op"
    /\ cur.kind = "object" /\ cur.cmd = "ping"
    /\ ~running /\ ~tasks
    /\ nread = 2

\* the step that answers a connect request with success false
FailedConnectStep ==
    HandleStep /\ cur.kind = "object" /\ cur.cmd = "connect" /\ ~resp'.success
\* the last response written is that of a failed connect: one of connect's
\* own refusals, or the error of a raise that left the bridge not connected
\* (a device command raises only while connected, and leaves it so)
AfterFailedConnect ==
    /\ ~resp.success
    /\ \/ resp.body \in {"meshcore library not installed", "TCP not supported",
                          "No response from device"}
       \/ resp.body = "exception, traceback" /\ ~connected
\* a failed connect leaves connected false, and the device object of a
\* session that was Connected has been disconnected and is no longer held
OldSessionGone ==
    FailedConnectStep =>
        /\ ~connected'
        /\ connected => meshcore \notin open' /\ meshcore' # meshcore

\* C21 as stated: after every failed connect the session is Disconnected, a
\* previous session having been disconnected first, and the next command
\* other than connect gets "Not connected".
C21_Original ==
    [][/\ OldSessionGone
       /\ (HandleStep /\ AfterFailedConnect /\ cur.kind = "object"
             /\ cur.cmd # "connect") =>
            Answered(Err(ReqId, "Not connected"))]_vars

\* C21 amended: as C21, with the next command being one of the eight device
\* commands.
C21_FailedConnectDisconnects ==
    [][/\ OldSessionGone
       /\ (HandleStep /\ AfterFailedConnect /\ cur.kind = "object"
             /\ cur.cmd \in DeviceCmds) =>
            /\ Answered(Err(ReqId, "Not connected"))
            /\ UNCHANGED <<Session, running>>]_vars

\* C21 witness: a connect over TCP sent while Connected was refused, the
\* network transport being unavailable; the old session was disconnected
\* first and its transport is closed.
C21_Witness ==
    /\ pc = "read"
    /\ resp = Err("2", "TCP not supported")
    /\ "implicit_disconnect" \in events
    /\ ~connected /\ meshcore = None /\ connection = None
    /\ open = {}
====
